---- MODULE Spec2Model ----
(***************************************************************************)
(* Control logic of TrainerTrainLoopMixin                                  *)
(* (pytorch_lightning/trainer/train_loop_mixin.py): train,                 *)
(* run_training_epoch, run_training_batch and the optimizer_closure.       *)
(*                                                                         *)
(* The collaborators (model, data loader, optimizers, early-stop callback, *)
(* logger, progress bar) are the environment: what they return is drawn    *)
(* from small sets, and every call into them is counted in an observation  *)
(* variable.  Fractional quantities are kept in fixed point:               *)
(*   - an efficiency ratio r is the integer r * RatioUnit (RatioUnit = 2,  *)
(*     so 0.5 is 1 and 1.0 is 2), and so is an accumulation counter;       *)
(*   - a loss l is the integer l * LossScale, LossScale being              *)
(*     RatioUnit * accumulate_grad_batches, which makes the division of    *)
(*     line 348 exact.                                                     *)
(*                                                                         *)
(* accumulate_grad_batches is the value in force during the run: the       *)
(* accumulation scheduler's hook of line 206 is counted, and what it may   *)
(* assign is outside this file.  Log saving, metric logging and the        *)
(* progress bar's counts (lines 189-203, 267-277, 414-415) write no state  *)
(* the loop reads and are left out.                                        *)
(***************************************************************************)
EXTENDS Integers, Sequences, FiniteSets, TLC

\* ---------------------------------------------------------------- bounds
MaxEpochs == 3
MaxBatches == 3
MaxSplits == 2
MaxOptimizers == 2
MaxAccumulate == 2
MaxReinvoke == 1
MaxValCheckBatch == 2
\* batches of the one long epoch that fills the running-loss window
MaxWindowRun == 101

\* the running-loss slice of line 406: running_loss[-100:]
WindowLen == 100

\* 1.0 in the fixed point of efficiency ratios and accumulation counters
RatioUnit == 2

\* None, as the value of self.hiddens (line 324); the hiddens a forward call
\* returns are tokens <<split, optimizer, k>>, k = 0 for the call the loops
\* schedule (line 373) and 1, 2, ... for the calls optimizer_step makes
None == <<>>

\* truncated_bptt_steps is None (line 320)
NoTbptt == 0

VARIABLES
    \* ---- configuration of the trainer (attributes train() only reads)
    max_nb_epochs, min_nb_epochs, fast_dev_run, enable_early_stop,
    accumulate_grad_batches, nb_optimizers, truncated_bptt_steps,
    val_check_batch, check_val_every_n_epoch, nb_training_batches,
    track_grad_norm, row_log_interval,
    has_logger,          \* self.logger is not None
    has_lr_schedulers,   \* self.lr_schedulers is not None
    \* ---- behaviour class of the collaborators
    nb_loader_batches,   \* batches the train dataloader yields per epoch
    batch_kinds,         \* "run", "none" (a None batch), "skip" (hook says -1)
    ratios,              \* efficiency ratios training_step may report
    raw_losses,          \* losses training_step may return
    key_sets,            \* key sets of the log metrics it may return
    max_reinvoke,        \* closure calls optimizer_step may make per step
    may_fault,           \* collaborators may raise
    \* ---- control position
    pc, epoch_nb, loader_pos, nb_splits, split_nb, opt_idx,
    \* ---- trainer state
    current_epoch, batch_nb, global_step, total_batch_nb,
    batch_loss_value, running_loss, avg_loss, hiddens,
    opt_idx_to_accumulate_grad_batches, all_log_metrics, grad_norm_dic,
    batch_result,
    \* ---- observations of the calls made into collaborators
    obs

cfgVars == <<max_nb_epochs, min_nb_epochs, fast_dev_run, enable_early_stop,
             accumulate_grad_batches, nb_optimizers, truncated_bptt_steps,
             val_check_batch, check_val_every_n_epoch, nb_training_batches,
             track_grad_norm, row_log_interval, has_logger, has_lr_schedulers,
             nb_loader_batches,
             batch_kinds, ratios, raw_losses, key_sets,
             max_reinvoke, may_fault>>

ctlVars == <<pc, epoch_nb, loader_pos, nb_splits, split_nb, opt_idx>>

stateVars == <<current_epoch, batch_nb, global_step, total_batch_nb,
               batch_loss_value, running_loss, avg_loss, hiddens,
               opt_idx_to_accumulate_grad_batches, all_log_metrics,
               grad_norm_dic, batch_result>>

vars == <<cfgVars, ctlVars, stateVars, obs>>

\* ------------------------------------------------------- pure operators

\* the optimizer slots: enumerate(self.optimizers)
Slots == 0 .. (nb_optimizers - 1)

\* a dictionary with no key
EmptyDict == [k \in {} |-> 0]

\* the fixed point of losses: RatioUnit * accumulate_grad_batches
LossScale == RatioUnit * accumulate_grad_batches

\* the threshold test of line 383, counters being in RatioUnit-ths
ThresholdReached(counter) == counter >= accumulate_grad_batches * RatioUnit

\* the loss weighted by the ratio but not divided by accumulate_grad_batches
ReweightUndivided(loss, ratio) == (loss * ratio) \div RatioUnit

\* lines 347-352: closure_loss * (batch_loss_efficiency_ratio / accumulate_grad_batches)
Reweight(loss, ratio) == (loss * ratio) \div (RatioUnit * accumulate_grad_batches)

\* the merge keeping the first value of a key instead of the last
RECURSIVE MergeDictsFirstWins(_)
MergeDictsFirstWins(dicts) ==
    IF dicts = <<>> THEN EmptyDict
    ELSE LET acc == MergeDictsFirstWins(SubSeq(dicts, 1, Len(dicts) - 1))
             d == dicts[Len(dicts)]
         IN  [k \in (DOMAIN acc) \cup (DOMAIN d) |->
                 IF k \in DOMAIN acc THEN acc[k] ELSE d[k]]

\* line 418 (and 421): {k: v for d in dicts for k, v in d.items()}, the
\* dictionaries being visited first to last and each item assigned in turn
RECURSIVE MergeDicts(_)
MergeDicts(dicts) ==
    IF dicts = <<>> THEN EmptyDict
    ELSE LET acc == MergeDicts(SubSeq(dicts, 1, Len(dicts) - 1))
             d == dicts[Len(dicts)]
         IN  [k \in (DOMAIN acc) \cup (DOMAIN d) |->
                 IF k \in DOMAIN d THEN d[k] ELSE acc[k]]

\* line 406: running_loss[-100:], and np.mean of it as <<sum, count>>
LastWindow(seq) ==
    IF Len(seq) <= WindowLen THEN seq
    ELSE SubSeq(seq, Len(seq) - WindowLen + 1, Len(seq))

RECURSIVE SumSeq(_)
SumSeq(seq) == IF seq = <<>> THEN 0 ELSE seq[1] + SumSeq(Tail(seq))

Mean(seq) == <<SumSeq(seq), Len(seq)>>

\* What one invocation of optimizer_closure (lines 332-370) does to the state
\* it touches. c is [hiddens, counters, metrics, last, forward, backward]:
\* self.hiddens, self.opt_idx_to_accumulate_grad_batches, all_log_metrics,
\* and the record of the calls made: the last forward call with what it was
\* given and what it returned, and the number of forward and backward calls.
\* The forward call is given self.hiddens (line 335); it returns the raw loss
\* raw, log metrics with the keys `keys` (each valued with the token of this
\* call), the efficiency ratio in its callback metrics, and its token as
\* hiddens.
ClosureHiddens(split, opt, k) == <<split, opt, k>>

ClosureCounters(counters, opt, ratio) == [counters EXCEPT ![opt] = @ + ratio]

OptimizerClosure(c, split, opt, k, raw, ratio, keys) ==
    LET token == <<split, opt, k>>
    IN  [hiddens  |-> ClosureHiddens(split, opt, k),
         counters |-> ClosureCounters(c.counters, opt, ratio),
         metrics  |-> Append(c.metrics, [key \in keys |-> token]),
         last     |-> [split |-> split, opt |-> opt, k |-> k,
                       hin |-> c.hiddens, hout |-> token,
                       raw |-> raw * LossScale, ratio |-> ratio,
                       loss |-> Reweight(raw * LossScale, ratio)],
         forward  |-> c.forward + 1,
         backward |-> c.backward + 1]

\* model.optimizer_step(..., optimizer_closure) calling the closure n times
\* (lines 400-401), k calls of this pass having been made; the closure reads
\* split_batch, opt_idx and self.hiddens as they are at the time of the call
RECURSIVE Reinvoke(_, _, _, _, _, _, _, _)
Reinvoke(c, n, split, opt, k, raw, ratio, keys) ==
    IF n = 0 THEN c
    ELSE Reinvoke(OptimizerClosure(c, split, opt, k, raw, ratio, keys),
                  n - 1, split, opt, k + 1, raw, ratio, keys)

\* ---------------------------------------------------------------- train

\* no forward call made yet in this batch
NoCall == [split |-> -1, opt |-> -1, k |-> 0, hin |-> None, hout |-> None,
           raw |-> 0, ratio |-> 0, loss |-> 0]

\* what is recorded per batch, as run_training_batch starts on a batch
BatchObs(kind) ==
    [obs EXCEPT !.taken = @ + 1, !.kind = kind, !.val_ran = FALSE]

\* the record of the calls of a batch, emptied once its result is consumed
NoCallsObs(o) ==
    [o EXCEPT !.first = NoCall, !.sched = NoCall, !.last = NoCall,
              !.forward = 0, !.backward = 0, !.norms = 0, !.clips = 0,
              !.calls = <<>>,
              !.steps = [i \in Slots |-> 0], !.resets = [i \in Slots |-> 0]]

\* train, lines 167-211: the head of the epoch loop and the start of
\* run_training_epoch (the batch iterator is created at line 241)
TrainEpochBegin ==
    /\ pc = "train"
    /\ epoch_nb < max_nb_epochs
    /\ current_epoch' = epoch_nb
    /\ batch_loss_value' = 0
    /\ loader_pos' = 0
    /\ pc' = "epoch"
    /\ obs' = [obs EXCEPT !.sched_hooks = @ + 1]
    /\ UNCHANGED <<cfgVars, epoch_nb, nb_splits, split_nb, opt_idx, batch_nb,
                   global_step, total_batch_nb, running_loss, avg_loss, hiddens,
                   opt_idx_to_accumulate_grad_batches, all_log_metrics,
                   grad_norm_dic, batch_result>>

\* lines 229-232: after the epoch loop the progress bar is closed and the
\* logger, if there is one, is told of success
AfterEpochLoop(o) ==
    [o EXCEPT !.closed = @ + 1,
              !.finalized = IF has_logger THEN @ + 1 ELSE @]

\* train, lines 229-232: the epoch range is exhausted
TrainFinish ==
    /\ pc = "train"
    /\ epoch_nb >= max_nb_epochs
    /\ pc' = "done"
    /\ obs' = AfterEpochLoop(obs)
    /\ UNCHANGED <<cfgVars, epoch_nb, loader_pos, nb_splits, split_nb, opt_idx,
                   stateVars>>

\* line 308: the loader gave None for the batch
BatchIsNone(kind) == kind = "none"

\* lines 312-316: on_batch_start is implemented and its response is -1
HookAborts(kind) == kind = "skip"

\* what run_training_batch returns: lines 309, 317 and 423
Returned(result, norms, metrics) ==
    [result |-> result, grad_norm_dic |-> norms, log_metrics |-> metrics]

\* run_training_epoch line 241-250 entering run_training_batch, lines 298-324.
\* kind is what the loader and the on_batch_start hook give: "none", the batch
\* is None; "skip", the hook is implemented and returns -1; "run" otherwise.
NextBatch ==
    /\ pc = "epoch"
    /\ loader_pos < nb_loader_batches
    /\ batch_nb' = loader_pos
    /\ loader_pos' = loader_pos + 1
    /\ grad_norm_dic' = EmptyDict
    /\ all_log_metrics' = <<>>
    /\ \E kind \in batch_kinds :
         /\ obs' = BatchObs(kind)
         /\ IF BatchIsNone(kind)
            THEN /\ batch_result' = Returned(0, grad_norm_dic', EmptyDict)
                 /\ pc' = "after_batch"
                 /\ UNCHANGED <<nb_splits, split_nb, opt_idx, hiddens>>
            ELSE IF HookAborts(kind)
            THEN /\ batch_result' = Returned(-1, grad_norm_dic', EmptyDict)
                 /\ pc' = "after_batch"
                 /\ UNCHANGED <<nb_splits, split_nb, opt_idx, hiddens>>
            ELSE /\ nb_splits' \in (IF truncated_bptt_steps = NoTbptt
                                    THEN {1} ELSE 1 .. MaxSplits)
                 /\ hiddens' = None
                 /\ split_nb' = 0
                 /\ opt_idx' = 0
                 /\ pc' = "closure"
                 /\ UNCHANGED batch_result
    /\ UNCHANGED <<cfgVars, epoch_nb, current_epoch, global_step,
                   total_batch_nb, batch_loss_value, running_loss, avg_loss,
                   opt_idx_to_accumulate_grad_batches>>

\* the state the closure works on, gathered from the variables
ClosureState ==
    [hiddens |-> hiddens, counters |-> opt_idx_to_accumulate_grad_batches,
     metrics |-> all_log_metrics, last |-> obs.last,
     forward |-> obs.forward, backward |-> obs.backward]

\* lines 325-329: the next (split, optimizer) of the nested loops, or the end
AdvanceLoops ==
    IF opt_idx + 1 < nb_optimizers
    THEN /\ opt_idx' = opt_idx + 1
         /\ UNCHANGED <<split_nb, pc>>
    ELSE IF split_nb + 1 < nb_splits
    THEN /\ opt_idx' = 0
         /\ split_nb' = split_nb + 1
         /\ UNCHANGED pc
    ELSE /\ pc' = "batch_end"
         /\ UNCHANGED <<split_nb, opt_idx>>

\* the record of the calls after a pass: c1 after the scheduled closure call,
\* c2 at the end of the pass
CallObs(c1, c2) ==
    [obs EXCEPT !.first = IF obs.forward = 0 THEN c1.last ELSE @,
                !.sched = c1.last, !.last = c2.last,
                !.forward = c2.forward, !.backward = c2.backward]

\* every slot's counter reset when one slot steps
ResetAllCounters(counters, opt) == [o \in DOMAIN counters |-> 0]

\* lines 383-385: the counter after the threshold test
ResetCounter(counters, opt) == [counters EXCEPT ![opt] = 0]

\* lines 388-392: whether model.grad_norm is called before the step
TracksGradNorm(b) == b % row_log_interval = 0 /\ track_grad_norm > 0

\* clip_gradients called in every pass, outside the threshold test
PassCallsClipAlways(step, tracks) ==
    IF step
    THEN <<"reset">> \o (IF tracks THEN <<"grad_norm">> ELSE <<>>)
             \o <<"clip_gradients", "optimizer_step">>
    ELSE <<"clip_gradients">>

\* lines 383-401: what a pass does after the closure call, in order, step
\* being the threshold test of line 383 and tracks the tests of lines 388-389
PassCalls(step, tracks) ==
    IF step
    THEN <<"reset">> \o (IF tracks THEN <<"grad_norm">> ELSE <<>>)
             \o <<"clip_gradients", "optimizer_step">>
    ELSE <<>>

\* lines 403-405: what is appended to running_loss
RunningLossEntry(blv) == blv

\* batch_loss_value overwritten by the loss instead of growing by it
OverwriteLoss(blv, loss) == loss

\* line 380: self.batch_loss_value += loss.item()
AccumulateLoss(blv, loss) == blv + loss

\* run_training_batch, lines 329-406: one pass of the body of the loops, for
\* split split_nb and optimizer opt_idx. The forward call reports the
\* efficiency ratio `ratio`, the raw loss `raw` and log metrics under `keys`;
\* when a step is taken, optimizer_step calls the closure n more times.
SplitOptimizerPass ==
    /\ pc = "closure"
    /\ \E ratio \in ratios, keys \in key_sets, raw \in raw_losses,
          n \in 0 .. max_reinvoke :
         LET c1 == OptimizerClosure(ClosureState, split_nb, opt_idx, 0, raw,
                                    ratio, keys)
             blv == AccumulateLoss(batch_loss_value, c1.last.loss)
             step == ThresholdReached(c1.counters[opt_idx])
             c2 == IF step
                   THEN Reinvoke([c1 EXCEPT !.counters =
                                      ResetCounter(c1.counters, opt_idx)],
                                 n, split_nb, opt_idx, 1, raw, ratio, keys)
                   ELSE c1
         IN  /\ step \/ n = 0
             /\ hiddens' = c2.hiddens
             /\ opt_idx_to_accumulate_grad_batches' = c2.counters
             /\ all_log_metrics' = c2.metrics
             /\ IF step
                THEN /\ running_loss' = Append(running_loss, RunningLossEntry(blv))
                     /\ batch_loss_value' = 0
                     /\ avg_loss' = Mean(LastWindow(running_loss'))
                     /\ grad_norm_dic' =
                            IF TracksGradNorm(batch_nb)
                            THEN [grad_norm |-> <<split_nb, opt_idx>>]
                            ELSE grad_norm_dic
                     /\ obs' = [CallObs(c1, c2)
                                   EXCEPT !.calls = PassCalls(
                                              step, TracksGradNorm(batch_nb)),
                                          !.resets[opt_idx] = @ + 1,
                                          !.norms = IF TracksGradNorm(batch_nb)
                                                    THEN @ + 1 ELSE @,
                                          !.clips = @ + 1,
                                          !.steps[opt_idx] = @ + 1]
                ELSE /\ batch_loss_value' = blv
                     /\ obs' = [CallObs(c1, c2)
                                   EXCEPT !.calls = PassCalls(
                                              step, TracksGradNorm(batch_nb))]
                     /\ UNCHANGED <<running_loss, avg_loss, grad_norm_dic>>
    /\ AdvanceLoops
    /\ UNCHANGED <<cfgVars, epoch_nb, loader_pos, nb_splits, current_epoch,
                   batch_nb, global_step, total_batch_nb, batch_result>>

\* the exception caught and dropped: the batch goes on to its end
FaultSwallowed == "batch_end"

\* where control goes when a collaborator raises: no try statement encloses
\* the calls (lines 165-423), so the exception leaves train
FaultLeavesTrain == "raised"

\* A collaborator raising inside the pass: training_forward (line 334),
\* model.backward (line 356) or model.optimizer_step (line 400). Nothing
\* catches it, so it leaves train; what had been assigned before stays.
CollaboratorRaises ==
    /\ pc = "closure"
    /\ may_fault
    /\ pc' = FaultLeavesTrain
    /\ \E at \in {"forward", "backward", "optimizer_step"}, ratio \in ratios :
         LET c1 == OptimizerClosure(ClosureState, split_nb, opt_idx, 0, 0,
                                    ratio, {})
             blv == AccumulateLoss(batch_loss_value, c1.last.loss)
         IN  \/ /\ at = "forward"
                /\ obs' = [obs EXCEPT !.fault = at, !.forward = @ + 1,
                                      !.calls = <<>>]
                /\ UNCHANGED <<hiddens, opt_idx_to_accumulate_grad_batches,
                               all_log_metrics, batch_loss_value>>
             \/ /\ at = "backward"
                /\ hiddens' = c1.hiddens
                /\ opt_idx_to_accumulate_grad_batches' = c1.counters
                /\ obs' = [obs EXCEPT !.fault = at, !.forward = @ + 1,
                                      !.backward = @ + 1, !.calls = <<>>]
                /\ UNCHANGED <<all_log_metrics, batch_loss_value>>
             \/ /\ at = "optimizer_step"
                /\ ThresholdReached(c1.counters[opt_idx])
                /\ hiddens' = c1.hiddens
                /\ opt_idx_to_accumulate_grad_batches' =
                       ResetCounter(c1.counters, opt_idx)
                /\ all_log_metrics' = c1.metrics
                /\ batch_loss_value' = blv
                /\ obs' = [CallObs(c1, c1) EXCEPT !.fault = at,
                                      !.calls = PassCalls(
                                          TRUE, TracksGradNorm(batch_nb)),
                                      !.resets[opt_idx] = @ + 1,
                                      !.norms = IF TracksGradNorm(batch_nb)
                                                THEN @ + 1 ELSE @,
                                      !.clips = @ + 1,
                                      !.steps[opt_idx] = @ + 1]
    /\ UNCHANGED <<cfgVars, epoch_nb, loader_pos, nb_splits, split_nb, opt_idx,
                   current_epoch, batch_nb, global_step, total_batch_nb,
                   running_loss, avg_loss, grad_norm_dic, batch_result>>

\* run_training_batch, lines 408-423: after the loops
BatchEnd ==
    /\ pc = "batch_end"
    /\ batch_result' = Returned(0, grad_norm_dic, MergeDicts(all_log_metrics))
    /\ pc' = "after_batch"
    /\ UNCHANGED <<cfgVars, epoch_nb, loader_pos, nb_splits, split_nb, opt_idx,
                   current_epoch, batch_nb, global_step, total_batch_nb,
                   batch_loss_value, running_loss, avg_loss, hiddens,
                   opt_idx_to_accumulate_grad_batches, all_log_metrics,
                   grad_norm_dic, obs>>

\* line 254: the sentinel of run_training_batch
EarlyStopEpoch(result) == result = -1

\* the validation cadence tested on batch_nb instead of batch_nb + 1
ShouldCheckValOffByOne(b, early_stop_epoch) ==
    LET is_val_check_batch == b % val_check_batch = 0
        can_check_epoch == (current_epoch + 1) % check_val_every_n_epoch = 0
    IN  (is_val_check_batch \/ early_stop_epoch) /\ can_check_epoch

\* lines 259-261
ShouldCheckVal(b, early_stop_epoch) ==
    LET is_val_check_batch == (b + 1) % val_check_batch = 0
        can_check_epoch == (current_epoch + 1) % check_val_every_n_epoch = 0
    IN  (is_val_check_batch \/ early_stop_epoch) /\ can_check_epoch

\* run_evaluation not forced by fast_dev_run
RunsEvaluationUnforced(b, early_stop_epoch) ==
    ShouldCheckVal(b, early_stop_epoch)

\* line 264: whether run_evaluation is called after the batch
RunsEvaluation(b, early_stop_epoch) ==
    fast_dev_run \/ ShouldCheckVal(b, early_stop_epoch)

\* the batch loop not left on the sentinel
BreaksEpochIgnoringSentinel(b, early_stop_epoch) ==
    \/ fast_dev_run
    \/ b >= nb_training_batches

\* lines 285-291: whether the batch loop is left after this batch
BreaksEpoch(b, early_stop_epoch) ==
    \/ early_stop_epoch
    \/ fast_dev_run
    \/ b >= nb_training_batches

\* global_step advanced once per optimizer slot instead of once per batch
NextGlobalStepPerSlot(gs) == gs + nb_optimizers

\* line 279
NextGlobalStep(gs) == gs + 1

\* run_training_epoch, lines 251-291: the rest of the loop body after
\* run_training_batch has returned, and the test of the for loop for the
\* next batch (the iterator of line 241 being exhausted ends the epoch)
AfterBatch ==
    /\ pc = "after_batch"
    /\ LET early_stop_epoch == EarlyStopEpoch(batch_result.result)
           evaluate == RunsEvaluation(batch_nb, early_stop_epoch)
       IN  /\ obs' = [NoCallsObs(obs) EXCEPT
                          !.val_ran = evaluate,
                          !.val_checks = IF evaluate THEN @ + 1 ELSE @]
           /\ pc' = IF \/ BreaksEpoch(batch_nb, early_stop_epoch)
                       \/ loader_pos >= nb_loader_batches
                    THEN "epoch_end" ELSE "epoch"
    /\ global_step' = NextGlobalStep(global_step)
    /\ total_batch_nb' = total_batch_nb + 1
    /\ UNCHANGED <<cfgVars, epoch_nb, loader_pos, nb_splits, split_nb, opt_idx,
                   current_epoch, batch_nb, batch_loss_value, running_loss,
                   avg_loss, hiddens, opt_idx_to_accumulate_grad_batches,
                   all_log_metrics, grad_norm_dic, batch_result>>

\* the minimum-epoch test made non-strict
MetMinEpochsNonStrict(e) == e >= min_nb_epochs

\* line 219
MetMinEpochs(e) == e > min_nb_epochs

\* line 220: whether early_stop_callback.on_epoch_end is called
QueriesEarlyStop(e) == enable_early_stop /\ (MetMinEpochs(e) \/ fast_dev_run)

\* fast_dev_run letting the stop signal through whatever the epoch
StopAlsoInFastDevRun(should_stop, e) ==
    should_stop /\ (MetMinEpochs(e) \/ fast_dev_run)

\* line 224
Stop(should_stop, e) == should_stop /\ MetMinEpochs(e)

\* lines 214-216: lr_scheduler.step for every scheduler, if there are any;
\* n is the number of times they have stepped
LrSchedulersStep(n) == IF has_lr_schedulers THEN n + 1 ELSE n

\* the early-stop callback asked before the schedulers step
LrStepsBeforeQuery(n) == n

\* lines 214-221: the steps the schedulers have made when the early-stop
\* callback is called, n being those made before this epoch ended
LrStepsAtQuery(n) == LrSchedulersStep(n)

\* the epoch loop left by break instead of return: the code after the loop runs
HaltThenFinalize(o) == AfterEpochLoop(o)

\* train returning on early stop with the progress bar left open
HaltWithoutClosing(o) == o

\* lines 225-227: the progress bar is closed and train returns
HaltByEarlyStop(o) == [o EXCEPT !.closed = @ + 1]

\* train, lines 213-227, after run_training_epoch has returned: the
\* learning-rate schedulers step, then the early-stop callback is asked and
\* answers should_stop
EpochEnd ==
    /\ pc = "epoch_end"
    /\ \E should_stop \in BOOLEAN :
         LET queried == QueriesEarlyStop(epoch_nb)
             stop == queried /\ Stop(should_stop, epoch_nb)
         IN  /\ queried \/ ~should_stop
             /\ LET o == [obs EXCEPT !.lr_steps = LrSchedulersStep(@),
                                      !.es_epoch = epoch_nb,
                                      !.es_queried = queried,
                                      !.es_lr = IF queried
                                                THEN LrStepsAtQuery(obs.lr_steps)
                                                ELSE 0,
                                      !.es_answer = should_stop,
                                      !.halted = stop]
                IN  obs' = IF stop THEN HaltByEarlyStop(o) ELSE o
             /\ IF stop
                THEN pc' = "done" /\ UNCHANGED epoch_nb
                ELSE pc' = "train" /\ epoch_nb' = epoch_nb + 1
    /\ UNCHANGED <<cfgVars, loader_pos, nb_splits, split_nb, opt_idx, stateVars>>

\* ------------------------------------------------------------- the system

\* the default configuration and the default collaborators
DefaultCfg ==
    [max_nb_epochs |-> 2, min_nb_epochs |-> 1, fast_dev_run |-> FALSE,
     enable_early_stop |-> TRUE, accumulate_grad_batches |-> 1,
     nb_optimizers |-> 1, truncated_bptt_steps |-> NoTbptt,
     val_check_batch |-> 1, check_val_every_n_epoch |-> 1,
     track_grad_norm |-> -1, row_log_interval |-> 1, has_logger |-> TRUE,
     has_lr_schedulers |-> TRUE,
     nb_loader_batches |-> 2, nb_training_batches |-> 2,
     batch_kinds |-> {"run"}, ratios |-> {RatioUnit}, raw_losses |-> {0},
     key_sets |-> {{"a"}}, max_reinvoke |-> 0, may_fault |-> FALSE]

\* the batch executor: accumulation over optimizer slots and splits, with
\* None and skipped batches and raising collaborators
SlotCfgs ==
    {[DefaultCfg EXCEPT !.accumulate_grad_batches = k, !.nb_optimizers = n,
                        !.truncated_bptt_steps = 2, !.may_fault = TRUE,
                        !.key_sets = {{}},
                        !.batch_kinds = {"run", "none", "skip"}] :
        k \in 1 .. MaxAccumulate, n \in 1 .. MaxOptimizers}

\* the batch executor: fractional efficiency ratios
RatioCfgs ==
    {[DefaultCfg EXCEPT !.accumulate_grad_batches = k,
                        !.truncated_bptt_steps = 2, !.may_fault = TRUE,
                        !.ratios = {1, RatioUnit}, !.key_sets = {{}},
                        !.batch_kinds = {"run", "none", "skip"}] :
        k \in 1 .. MaxAccumulate}

\* the batch executor: optimizer_step calling the closure again
ReinvokeCfgs ==
    {[DefaultCfg EXCEPT !.accumulate_grad_batches = k, !.nb_optimizers = n,
                        !.truncated_bptt_steps = 2,
                        !.max_reinvoke = m, !.key_sets = {{}},
                        !.nb_loader_batches = 1, !.nb_training_batches = 1] :
        k \in 1 .. MaxAccumulate, n \in 1 .. MaxOptimizers,
        m \in {0, MaxReinvoke}}

\* the epoch runner: validation cadence, batch limit, skipped batches
CadenceCfgs ==
    {[DefaultCfg EXCEPT !.max_nb_epochs = e, !.fast_dev_run = f,
                        !.val_check_batch = v, !.check_val_every_n_epoch = c,
                        !.nb_loader_batches = l, !.nb_training_batches = t,
                        !.key_sets = {{}},
                        !.batch_kinds = {"run", "none", "skip"}] :
        e \in 1 .. 2, f \in BOOLEAN, v \in 1 .. MaxValCheckBatch,
        c \in 1 .. 2, l \in 1 .. MaxBatches, t \in 1 .. MaxBatches}

\* the epoch controller: epoch range, early stop
EarlyStopCfgs ==
    {[DefaultCfg EXCEPT !.max_nb_epochs = e, !.min_nb_epochs = m,
                        !.fast_dev_run = f, !.enable_early_stop = s,
                        !.nb_loader_batches = l, !.nb_training_batches = l,
                        !.key_sets = {{}},
                        !.batch_kinds = {"run", "skip"}] :
        e \in 1 .. MaxEpochs, m \in 0 .. 1, f \in BOOLEAN, s \in BOOLEAN,
        l \in 1 .. 2}

\* the losses
LossCfgs ==
    {[DefaultCfg EXCEPT !.accumulate_grad_batches = k, !.nb_optimizers = n,
                        !.nb_loader_batches = l, !.nb_training_batches = l,
                        !.raw_losses = {1, 2}, !.key_sets = {{}}] :
        k \in 1 .. MaxAccumulate, n \in 1 .. MaxOptimizers, l \in 1 .. 2}

\* the gradient-norm diagnostics
GradNormCfgs ==
    {[DefaultCfg EXCEPT !.accumulate_grad_batches = k, !.track_grad_norm = g,
                        !.row_log_interval = r, !.key_sets = {{}}] :
        k \in 1 .. MaxAccumulate, g \in {-1, 2}, r \in 1 .. 2}

\* the log metrics
MetricCfgs ==
    {[DefaultCfg EXCEPT !.nb_optimizers = n, !.truncated_bptt_steps = t,
                        !.max_reinvoke = m,
                        !.max_nb_epochs = 1, !.nb_loader_batches = 1,
                        !.nb_training_batches = 1,
                        !.key_sets = {{"a"}, {"b"}, {"a", "b"}}] :
        n \in 1 .. MaxOptimizers,
        t \in {NoTbptt, 2}, m \in 0 .. 1}

\* one long epoch, an optimizer step in every batch
WindowCfgs ==
    {[DefaultCfg EXCEPT !.max_nb_epochs = 1,
                        !.nb_loader_batches = MaxWindowRun,
                        !.nb_training_batches = MaxWindowRun,
                        !.raw_losses = {1}, !.key_sets = {{}}]}

\* the losses under fractional efficiency ratios
ReweightCfgs ==
    {[DefaultCfg EXCEPT !.accumulate_grad_batches = k, !.max_nb_epochs = 1,
                        !.ratios = {1, RatioUnit},
                        !.raw_losses = {1, 2}, !.key_sets = {{}}] :
        k \in 1 .. MaxAccumulate}

\* train without a logger or without learning-rate schedulers
LoggerCfgs ==
    {[DefaultCfg EXCEPT !.has_logger = g, !.has_lr_schedulers = ~g,
                        !.max_nb_epochs = e,
                        !.fast_dev_run = f, !.min_nb_epochs = 0,
                        !.nb_loader_batches = 1, !.nb_training_batches = 1,
                        !.key_sets = {{}}] :
        e \in 1 .. 2, f \in BOOLEAN, g \in BOOLEAN}

Configurations ==
    SlotCfgs \cup RatioCfgs \cup ReinvokeCfgs \cup CadenceCfgs
        \cup EarlyStopCfgs \cup LossCfgs \cup GradNormCfgs \cup LoggerCfgs
        \cup WindowCfgs \cup ReweightCfgs
        \cup {c \in MetricCfgs : c.max_reinvoke = 0 \/ c.truncated_bptt_steps = NoTbptt}

\* the configurations under which termination is followed: the epoch
\* controller, and the batch executor with collaborators that may raise
LiveConfigurations ==
    {c \in EarlyStopCfgs : c.nb_loader_batches = 1}
        \cup {c \in SlotCfgs : c.accumulate_grad_batches = 1}

TypeCfgIn(cfgs) ==
    \E c \in cfgs :
        /\ max_nb_epochs = c.max_nb_epochs
        /\ min_nb_epochs = c.min_nb_epochs
        /\ fast_dev_run = c.fast_dev_run
        /\ enable_early_stop = c.enable_early_stop
        /\ accumulate_grad_batches = c.accumulate_grad_batches
        /\ nb_optimizers = c.nb_optimizers
        /\ truncated_bptt_steps = c.truncated_bptt_steps
        /\ val_check_batch = c.val_check_batch
        /\ check_val_every_n_epoch = c.check_val_every_n_epoch
        /\ track_grad_norm = c.track_grad_norm
        /\ row_log_interval = c.row_log_interval
        /\ has_logger = c.has_logger
        /\ has_lr_schedulers = c.has_lr_schedulers
        /\ nb_loader_batches = c.nb_loader_batches
        /\ nb_training_batches = c.nb_training_batches
        /\ batch_kinds = c.batch_kinds
        /\ ratios = c.ratios
        /\ raw_losses = c.raw_losses
        /\ key_sets = c.key_sets
        /\ max_reinvoke = c.max_reinvoke
        /\ may_fault = c.may_fault

\* the trainer as constructed, before train() is called
InitState ==
    /\ pc = "train"
    /\ epoch_nb = 0
    /\ loader_pos = 0
    /\ nb_splits = 1
    /\ split_nb = 0
    /\ opt_idx = 0
    /\ current_epoch = 0
    /\ batch_nb = 0
    /\ global_step = 0
    /\ total_batch_nb = 0
    /\ batch_loss_value = 0
    /\ running_loss = <<>>
    /\ avg_loss = <<0, 0>>
    /\ hiddens = None
    /\ opt_idx_to_accumulate_grad_batches = [o \in Slots |-> 0]
    /\ all_log_metrics = <<>>
    /\ grad_norm_dic = EmptyDict
    /\ batch_result = Returned(0, EmptyDict, EmptyDict)
    /\ obs = [taken |-> 0, kind |-> "none", first |-> NoCall,
              sched |-> NoCall, last |-> NoCall, forward |-> 0, backward |-> 0,
              steps |-> [o \in Slots |-> 0], resets |-> [o \in Slots |-> 0],
              norms |-> 0, clips |-> 0, calls |-> <<>>, val_ran |-> FALSE, val_checks |-> 0,
              sched_hooks |-> 0, lr_steps |-> 0, es_epoch |-> 0,
              es_queried |-> FALSE, es_lr |-> 0,
              es_answer |-> FALSE, halted |-> FALSE, closed |-> 0,
              finalized |-> 0, fault |-> "none"]

TypeCfg == TypeCfgIn(Configurations)

Init == TypeCfg /\ InitState

FairInit == TypeCfgIn(LiveConfigurations) /\ InitState

Next ==
    \/ TrainEpochBegin
    \/ NextBatch
    \/ SplitOptimizerPass
    \/ CollaboratorRaises
    \/ BatchEnd
    \/ AfterBatch
    \/ EpochEnd
    \/ TrainFinish

Spec == Init /\ [][Next]_vars

\* train is one sequential thread: as long as the collaborators return, the
\* next statement runs
FairSpec == FairInit /\ [][Next]_vars /\ WF_vars(Next)

\* ---------------------------------------------------------------- claims

\* a batch has been taken from the loader and its loop body is not finished
InBatch == pc \in {"closure", "batch_end", "after_batch", "raised"}

\* the loop body of the last batch taken has finished
BatchDone == obs.taken > 0 /\ pc \in {"epoch", "epoch_end", "train", "done"}

\* C1: global_step is the number of batches whose loop body in
\* run_training_epoch has run to its end: one more for each such batch,
\* whatever the number of optimizers and splits, across epochs.
C1_GlobalStepCountsBatches ==
    global_step = obs.taken - (IF InBatch THEN 1 ELSE 0)

C1_Witness ==
    /\ pc = "epoch"
    /\ current_epoch = 1
    /\ global_step = 3
    /\ nb_optimizers = 2
    /\ split_nb = 1

\* C2, as claimed: with a constant ratio of 1.0 (and every batch run, the
\* optimizer never calling the closure again), slot o steps during the n-th
\* batch of the run exactly when n is a multiple of accumulate_grad_batches.
C2_StepsOnMultiplesOfK ==
    (/\ ratios = {RatioUnit}
     /\ batch_kinds = {"run"}
     /\ max_reinvoke = 0
     /\ pc = "after_batch")
    => \A o \in Slots :
         obs.steps[o] > 0 <=> (global_step + 1) % accumulate_grad_batches = 0

\* C3, as claimed: the first forward call of a batch is given None, and a
\* forward call the loops schedule for split i+1 is given the hiddens that a
\* forward call of split i returned.
C3_HiddensFromPreviousSplit ==
    obs.forward > 0 =>
        /\ obs.first.hin = None
        /\ obs.sched.split > 0 =>
             /\ obs.sched.hin # None
             /\ obs.sched.hin[1] = obs.sched.split - 1

\* C4, as claimed: with check_val_every_n_epoch = 1, run_evaluation is called
\* after batch batch_nb exactly when (batch_nb + 1) % val_check_batch = 0 or
\* the batch returned -1.
C4_ValidationOnCadenceOnly ==
    (check_val_every_n_epoch = 1 /\ BatchDone) =>
        (obs.val_ran <=> \/ (batch_nb + 1) % val_check_batch = 0
                         \/ batch_result.result = -1)

\* C4, amended: with check_val_every_n_epoch = 1, run_evaluation is called
\* after batch batch_nb exactly when (batch_nb + 1) % val_check_batch = 0, or
\* the batch returned -1, or fast_dev_run is set.
C4_ValidationOnCadenceOrFastDevRun ==
    (check_val_every_n_epoch = 1 /\ BatchDone) =>
        (obs.val_ran <=> \/ (batch_nb + 1) % val_check_batch = 0
                         \/ batch_result.result = -1
                         \/ fast_dev_run)

C4_Witness ==
    /\ check_val_every_n_epoch = 1
    /\ ~fast_dev_run
    /\ val_check_batch = 2
    /\ pc = "epoch_end"
    /\ batch_nb = 2
    /\ batch_result.result = -1
    /\ obs.val_ran

\* C5: when on_batch_start returns -1, run_training_batch returns
\* (-1, {}, {}) without any forward, backward or optimizer_step call, and
\* no further batch of that epoch is taken.
C5_HookAbortsBatchAndEpoch ==
    obs.kind = "skip" =>
        /\ pc \in {"after_batch", "epoch_end", "train", "done"}
           \/ (pc = "epoch" /\ loader_pos = 0)
        /\ batch_result = Returned(-1, EmptyDict, EmptyDict)
        /\ obs.forward = 0 /\ obs.backward = 0
        /\ \A o \in Slots : obs.steps[o] = 0

C5_Witness ==
    /\ obs.kind = "skip"
    /\ pc = "epoch_end"
    /\ batch_nb = 0
    /\ nb_loader_batches > 1
    /\ opt_idx_to_accumulate_grad_batches[0] > 0

\* C6, as claimed: train is halted by early stop only at an epoch above
\* min_nb_epochs unless fast_dev_run is set, and with fast_dev_run set a stop
\* signal of the early-stop callback halts it whatever the epoch.
C6_FastDevRunStopsRegardless ==
    /\ obs.halted => (obs.es_epoch > min_nb_epochs \/ fast_dev_run)
    /\ (fast_dev_run /\ obs.es_queried /\ obs.es_answer) => obs.halted

\* C6, amended: train is halted by early stop only at an epoch above
\* min_nb_epochs, with fast_dev_run set too: a stop signal of the callback
\* halts train exactly when the epoch is above min_nb_epochs.
C6_StopNeedsMinEpochs ==
    /\ obs.halted => (obs.es_queried /\ obs.es_answer)
    /\ (obs.es_queried /\ obs.es_answer) =>
           (obs.halted <=> obs.es_epoch > min_nb_epochs)

C6_Witness ==
    /\ fast_dev_run
    /\ obs.es_queried /\ obs.es_answer
    /\ obs.es_epoch <= min_nb_epochs
    /\ ~obs.halted
    /\ pc = "train"

\* C7: train returns without having run epoch max_nb_epochs - 1 only if early
\* stop is enabled and the callback answered true at an epoch strictly above
\* min_nb_epochs; the callback is asked at the end of an epoch exactly when
\* early stop is enabled and the epoch is above min_nb_epochs or fast_dev_run
\* is set.
C7_EarlyReturnOnlyByEarlyStop ==
    /\ (pc = "done" /\ current_epoch < max_nb_epochs - 1) =>
           /\ obs.halted /\ enable_early_stop /\ obs.es_answer
           /\ current_epoch > min_nb_epochs
    /\ obs.lr_steps > 0 =>
           (obs.es_queried <=>
               enable_early_stop /\ (obs.es_epoch > min_nb_epochs \/ fast_dev_run))

C7_Witness ==
    /\ pc = "done"
    /\ obs.halted
    /\ current_epoch = 1
    /\ max_nb_epochs = 3

\* C8, as claimed: with fast_dev_run, one optimizer and a loader of one batch,
\* train has run exactly one training batch and one validation check when it
\* ends.
C8_OneBatchOneValidation ==
    (fast_dev_run /\ nb_optimizers = 1 /\ nb_loader_batches = 1 /\ pc = "done")
    => (obs.taken = 1 /\ obs.val_checks = 1)

\* C8, amended: with fast_dev_run, one optimizer and a loader of one batch,
\* every epoch train runs has exactly one training batch and one validation
\* check; train ends after at most max_nb_epochs of them, so with
\* max_nb_epochs = 1 it has run exactly one of each.
C8_OneBatchOneValidationPerEpoch ==
    (fast_dev_run /\ nb_optimizers = 1 /\ nb_loader_batches = 1) =>
        /\ obs.taken <= max_nb_epochs
        /\ pc \in {"epoch_end", "train", "done"} =>
               (obs.taken = obs.sched_hooks /\ obs.val_checks = obs.taken)
        /\ (pc = "done" /\ max_nb_epochs = 1) =>
               (obs.taken = 1 /\ obs.val_checks = 1)

C8_Witness ==
    /\ fast_dev_run /\ nb_optimizers = 1 /\ nb_loader_batches = 1
    /\ val_check_batch = 2
    /\ max_nb_epochs = 1
    /\ pc = "done"
    /\ obs.kind = "run"
    /\ obs.taken = 1
    /\ obs.val_checks = 1

\* the order in which the loops make the closure calls: by split, then by
\* optimizer slot, then by call within the pass
Before(t, u) ==
    \/ t[1] < u[1]
    \/ t[1] = u[1] /\ t[2] < u[2]
    \/ t[1] = u[1] /\ t[2] = u[2] /\ t[3] <= u[3]

\* C9: the log metrics run_training_batch returns have the keys of all the
\* dictionaries produced during the batch, and under each key the value of
\* the dictionary produced last, in the order split, then optimizer slot.
C9_LaterMetricsWin ==
    (pc = "after_batch" /\ obs.kind = "run") =>
        LET m == batch_result.log_metrics
            L == all_log_metrics
        IN  /\ DOMAIN m = UNION {DOMAIN L[i] : i \in DOMAIN L}
            /\ \A key \in DOMAIN m :
                 /\ \E i \in DOMAIN L : key \in DOMAIN L[i] /\ L[i][key] = m[key]
                 /\ \A i \in DOMAIN L :
                      key \in DOMAIN L[i] => Before(L[i][key], m[key])

C9_Witness ==
    /\ pc = "after_batch"
    /\ nb_optimizers = 2
    /\ Len(all_log_metrics) = 4
    /\ DOMAIN all_log_metrics[1] = {"a"}
    /\ DOMAIN all_log_metrics[2] = {"b"}
    /\ DOMAIN all_log_metrics[3] = {"a"}
    /\ DOMAIN all_log_metrics[4] = {"a"}
    /\ batch_result.log_metrics = [a |-> <<1, 1, 0>>, b |-> <<0, 1, 0>>]

\* the optimizer_step calls for slot o that have returned: the calls made,
\* less the one that raised
StepsPerformed(o) ==
    obs.steps[o] - (IF obs.fault = "optimizer_step" /\ opt_idx = o THEN 1 ELSE 0)

StepPerformed ==
    /\ pc = "closure"
    /\ \E o \in Slots :
         o = opt_idx /\ StepsPerformed(o)' = StepsPerformed(o) + 1

\* C11, as claimed: batch_loss_value goes to zero only in a pass in which an
\* optimizer step is performed, and otherwise only grows, by the reweighted
\* loss of each closure call the loops make, across epoch boundaries too.
C11_ZeroedOnlyByStep ==
    [][/\ (batch_loss_value' = 0 /\ batch_loss_value # 0) => StepPerformed
       /\ (batch_loss_value' # batch_loss_value /\ ~StepPerformed) =>
              /\ pc = "closure"
              /\ batch_loss_value' = batch_loss_value + obs'.sched.loss]_vars

\* C11, amended: batch_loss_value is set to zero when an optimizer step is
\* performed (line 405) and at the start of every epoch (line 187), and at no
\* other point; in every other pass of the loops it grows by the reweighted
\* loss of the closure call the loops make, and what a step appends to
\* running_loss is the sum of those losses since the last zeroing.
C11_ZeroedByStepOrEpochStart ==
    [][/\ StepPerformed =>
              /\ batch_loss_value' = 0
              /\ running_loss' = Append(running_loss,
                                        batch_loss_value + obs'.sched.loss)
       /\ (pc = "train" /\ pc' = "epoch") => batch_loss_value' = 0
       /\ (pc = "closure" /\ ~StepPerformed) =>
              batch_loss_value' = batch_loss_value
                  + (IF obs'.fault = "forward" THEN 0
                     ELSE IF obs'.fault = "backward" THEN 0
                     ELSE obs'.sched.loss)
       /\ (pc # "closure" /\ ~(pc = "train" /\ pc' = "epoch")) =>
              batch_loss_value' = batch_loss_value]_vars

C11_Witness ==
    /\ raw_losses = {1, 2}
    /\ accumulate_grad_batches = 2
    /\ epoch_nb = 1
    /\ pc = "epoch"
    /\ loader_pos = 0
    /\ batch_loss_value = 0
    /\ opt_idx_to_accumulate_grad_batches[0] = RatioUnit
    /\ running_loss = <<>>

\* C12, as claimed: the logger is told of success at most once, and only
\* when train has run all its epochs, never when train ends by early stop or
\* in a fast_dev_run; the progress bar is closed when train ends on any of
\* these paths.
C12_SuccessNeverInFastDevRun ==
    /\ obs.finalized <= 1
    /\ obs.finalized = 1 =>
           /\ pc = "done" /\ epoch_nb = max_nb_epochs
           /\ ~obs.halted /\ ~fast_dev_run
    /\ pc = "done" => obs.closed = 1

\* C12, amended: the logger is told of success at most once, exactly when
\* there is a logger and train has run all its epochs, in a fast_dev_run too
\* (which cuts every epoch after one batch but ends train the same way);
\* never when train ends by early stop. The progress bar is closed once on
\* both paths.
C12_SuccessOnlyOnFullCompletion ==
    /\ obs.finalized <= 1
    /\ obs.finalized = 1 <=>
           /\ pc = "done" /\ epoch_nb = max_nb_epochs
           /\ ~obs.halted /\ has_logger
    /\ obs.halted => (pc = "done" /\ obs.finalized = 0)
    /\ pc = "done" => obs.closed = 1

C12_Witness ==
    /\ pc = "done"
    /\ fast_dev_run
    /\ max_nb_epochs = 2
    /\ obs.taken = 2
    /\ ~obs.halted
    /\ obs.finalized = 1
    /\ obs.closed = 1

\* C13, as claimed: running_loss holds at most the last WindowLen values
\* appended to it, and avg_loss is the mean of the values it holds.
C13_RunningLossBounded ==
    /\ Len(running_loss) <= WindowLen
    /\ running_loss # <<>> => avg_loss = Mean(running_loss)

\* C14: when training_forward, backward or optimizer_step raises, train is
\* left at once: the raising call is the last call made, no later split,
\* slot, batch or epoch is processed (nothing changes any more), global_step
\* has not been advanced for the batch, and the logger has not been told of
\* success.
C14_FaultLeavesTrain ==
    [][/\ obs.fault # "none" => FALSE
       /\ obs'.fault # "none" =>
              /\ pc = "closure" /\ pc' = "raised"
              /\ split_nb' = split_nb /\ opt_idx' = opt_idx
              /\ obs'.taken = obs.taken /\ loader_pos' = loader_pos
              /\ obs'.forward = obs.forward + 1
              /\ obs'.backward =
                     obs.backward + (IF obs'.fault = "forward" THEN 0 ELSE 1)
              /\ StepsPerformed(opt_idx)' = StepsPerformed(opt_idx)
              /\ global_step' = global_step
              /\ global_step' = obs'.taken - 1
              /\ obs'.finalized = 0 /\ obs'.closed = 0]_vars

C14_Witness ==
    /\ pc = "raised"
    /\ obs.fault = "optimizer_step"
    /\ nb_optimizers = 2 /\ opt_idx = 0
    /\ nb_splits = 2 /\ split_nb = 0
    /\ epoch_nb = 1
    /\ loader_pos < nb_loader_batches

\* C15: the loss the closure hands to backward and returns is
\* raw_loss * ratio / accumulate_grad_batches, which is raw_loss /
\* accumulate_grad_batches when the ratio is 1.0, and that value is what
\* line 380 adds to batch_loss_value (which a step of the same pass then
\* moves to running_loss).
C15_BackwardLossReweighted ==
    [][(pc = "closure" /\ obs'.fault = "none") =>
         /\ obs'.sched.loss * accumulate_grad_batches * RatioUnit
                = obs'.sched.raw * obs'.sched.ratio
         /\ obs'.sched.ratio = RatioUnit =>
                obs'.sched.loss * accumulate_grad_batches = obs'.sched.raw
         /\ IF StepPerformed
            THEN running_loss' = Append(running_loss,
                                        batch_loss_value + obs'.sched.loss)
            ELSE batch_loss_value' = batch_loss_value + obs'.sched.loss]_vars

C15_Witness ==
    /\ pc = "batch_end"
    /\ accumulate_grad_batches = 2
    /\ obs.sched.ratio = 1
    /\ obs.sched.raw = 2 * LossScale
    /\ obs.sched.loss = 2
    /\ batch_loss_value = 3

\* C16, as claimed: in no epoch are more than nb_training_batches batches
\* taken from the loader and processed, however many the loader yields.
C16_AtMostLimitBatches ==
    loader_pos <= nb_training_batches

\* the epochs whose head (lines 167-206) has run, and those whose end (lines
\* 213-227) has run
EpochsBegun ==
    IF pc = "train" \/ (pc = "done" /\ ~obs.halted)
    THEN epoch_nb ELSE epoch_nb + 1

EpochsEnded ==
    IF pc = "done" /\ obs.halted THEN epoch_nb + 1 ELSE epoch_nb

\* C17: in every epoch the accumulation scheduler's hook is called first,
\* the batches are taken next, the learning-rate schedulers step once after
\* the last batch, in the epoch at which early stop halts train too, and the
\* early-stop callback, if asked, is asked after they have stepped.
C17_EpochEventOrder ==
    /\ obs.sched_hooks = EpochsBegun
    /\ obs.lr_steps = (IF has_lr_schedulers THEN EpochsEnded ELSE 0)
    /\ (InBatch \/ pc \in {"epoch", "epoch_end"}) =>
           (EpochsBegun = epoch_nb + 1 /\ EpochsEnded = epoch_nb)
    /\ obs.es_queried =>
           /\ obs.es_lr = (IF has_lr_schedulers THEN obs.es_epoch + 1 ELSE 0)
           /\ obs.es_epoch = EpochsEnded - 1

C17_Witness ==
    /\ pc = "done"
    /\ obs.halted
    /\ has_lr_schedulers
    /\ epoch_nb = 2
    /\ obs.sched_hooks = 3
    /\ obs.lr_steps = 3
    /\ obs.es_lr = 3

\* the positions of a call in the calls of the last pass
CallsOf(name) == {i \in DOMAIN obs.calls : obs.calls[i] = name}

\* C18: in a pass, optimizer_step is called right after exactly one
\* clip_gradients call, itself after the counter reset; grad_norm is called
\* only in such a pass, only when batch_nb % row_log_interval = 0 and
\* track_grad_norm > 0, and before clip_gradients; clip_gradients is never
\* called without the optimizer_step call after it.
C18_ClipThenStep ==
    /\ \A i \in CallsOf("optimizer_step") :
         /\ i > 1 /\ obs.calls[i - 1] = "clip_gradients"
         /\ Cardinality({j \in CallsOf("clip_gradients") : j < i}) = 1
         /\ \E j \in CallsOf("reset") : j < i - 1
         /\ opt_idx_to_accumulate_grad_batches[obs.sched.opt]
                = obs.last.k * obs.sched.ratio
    /\ \A i \in CallsOf("grad_norm") :
         /\ batch_nb % row_log_interval = 0 /\ track_grad_norm > 0
         /\ \E j \in CallsOf("clip_gradients") : i < j
         /\ \E j \in CallsOf("reset") : j < i
    /\ \A i \in CallsOf("clip_gradients") :
         \E j \in CallsOf("optimizer_step") : j = i + 1
    /\ Cardinality(CallsOf("optimizer_step")) <= 1

C18_Witness ==
    /\ obs.calls = <<"reset", "grad_norm", "clip_gradients", "optimizer_step">>
    /\ row_log_interval = 2
    /\ batch_nb = 0
    /\ obs.fault = "none"
    /\ epoch_nb = 1

\* C19: with a finite loader, a finite epoch range and collaborators that
\* return, train ends; the progress bar is closed exactly once when train
\* has ended, by early stop or after the last epoch, and is not closed
\* before: no batch is processed after it.
C19_TerminatesAndClosesOnce ==
    /\ <>(pc = "done" \/ obs.fault # "none")
    /\ [](pc = "done" => obs.closed = 1)
    /\ [](pc # "done" => obs.closed = 0)
    /\ [][pc = "done" => obs'.taken = obs.taken]_vars

C19_Witness ==
    /\ pc = "done"
    /\ obs.halted
    /\ obs.closed = 1
    /\ obs.taken = 2
    /\ epoch_nb = 1
    /\ max_nb_epochs = 3

\* C20, as claimed: when optimizer_step has returned, however many times it
\* called the closure, the slot's accumulation counter is 0 and self.hiddens
\* is what the forward call scheduled by the loops returned.
C20_ReinvocationLeavesSchedule ==
    (CallsOf("optimizer_step") # {} /\ obs.fault = "none") =>
        /\ opt_idx_to_accumulate_grad_batches[obs.sched.opt] = 0
        /\ hiddens = obs.sched.hout

====
